---- MODULE Spec2Model ----
(***************************************************************************)
(* Model of core::BoneKey (src/core/BoneKey.cpp): the per-node bone cache  *)
(* collection of one key, its rebuild / targeted update operations and its *)
(* binary serialization with deferred ID resolution.                       *)
(***************************************************************************)
EXTENDS Integers, Sequences, FiniteSets, TLC

\* ------------------------------------------------------------------------
\* Bounds of the model
\* ------------------------------------------------------------------------
\* number of scene nodes (ObjectNode objects), numbered 1..NumNodes
NumNodes == 2
\* largest number of bones of a forest
MaxBones == 2
\* largest number of weight computations in flight for one Cache, and for
\* Caches that are gone
MaxInFlight == 2

\* ------------------------------------------------------------------------
\* Values
\* ------------------------------------------------------------------------
\* Vertex counts: the code tests a count against 0 and hands it on unread,
\* so 0 and one positive count stand for all of them.
VertexCounts == {0, 1}
\* Frame signs are opaque markers that are only copied and compared.
FrameSigns == {0, 1}
\* The fields of a bone are written and read back as they are.
BoneFields == {0, 1}

\* ------------------------------------------------------------------------
\* Scene graph (ObjectNode tree) and meshes
\* ------------------------------------------------------------------------
Nodes == 1..NumNodes
\* a null ObjectNode pointer / an empty weak reference
NoNode == 0
\* a null LayerMesh pointer
NoMesh == [verts |-> -1, sign |-> 0]
Meshes == {NoMesh} \cup [verts : VertexCounts, sign : FrameSigns]

\* ObjectNode::parent(): node 1 is the root, node n hangs under n \div 2
Parent(n) == n \div 2

Children(n) == SelectSeq(<<2 * n, 2 * n + 1>>, LAMBDA c : c \in Nodes)

\* util::TreeUtil::leftContainsRight: aRhs is aLhs or lies beneath it
RECURSIVE leftContainsRight(_, _)
leftContainsRight(aLhs, aRhs) ==
    IF aRhs = NoNode THEN FALSE
    ELSE IF aRhs = aLhs THEN TRUE
    ELSE leftContainsRight(aLhs, Parent(aRhs))

\* ObjectNode::Iterator: the subtree of aRoot in document (pre-) order
RECURSIVE Iterate(_)
RECURSIVE IterateAll(_)
IterateAll(aNodes) ==
    IF aNodes = <<>> THEN <<>>
    ELSE Iterate(Head(aNodes)) \o IterateAll(Tail(aNodes))
Iterate(aRoot) == <<aRoot>> \o IterateAll(Children(aRoot))

SeqRange(s) == {s[i] : i \in 1..Len(s)}

Subtree(aRoot) == SeqRange(Iterate(aRoot))

\* ------------------------------------------------------------------------
\* State
\* ------------------------------------------------------------------------
VARIABLES
    mesh,        \* TimeKeyBlender::getAreaMesh(node, time) of every node
    mCaches,     \* BoneKey::mCaches, the list of Cache objects
    mCacheOwner, \* BoneKey::mCacheOwner, NoNode when unset
    pc,          \* "run", or how the process ended: "asserted", "crashed"
    op,          \* the operation that produced this state, the owner it
                 \* named and the nodes its roots cover
    written,     \* ids of the Caches that got a writeAsync request in op
    trace,       \* what op did, step by step, in the order of the code
    mData,       \* BoneKey::mData.topBones(), the bone forest
    stream,      \* the bytes serialize wrote last, as a sequence of values
    saved,       \* the BoneKey as it was when stream was written
    orders,      \* the deferred ID requests phase one of a decode recorded
    load,        \* progress and outcome of the decode
    tasks,       \* per Cache (by address) the weight computations that
                 \* writeAsync scheduled and no worker has run yet
    orphans,     \* the scheduled computations whose Cache was deleted
    bones,       \* the heap of Bone2 objects, by address
    datas,       \* the BoneKey::Data values: alive or not, and mTopBones
    dop,         \* the operation on a Data value that produced this state
    updater,     \* an ImageResourceUpdater, the image keys of its time
                 \* line and the command-stack call that produced this state
    focus,       \* a TimeLineFocus, the keys of its row and its last call
    panel        \* an ObjectPanel: its key panels, the attributes of its
                 \* target and the command stack of the project

vars == <<mesh, mCaches, mCacheOwner, pc, op, written, trace,
          mData, stream, saved, orders, load, tasks, orphans,
          bones, datas, dop, updater, focus, panel>>

serVars == <<mData, stream, saved, orders, load>>

dataVars == <<bones, datas, dop>>

appVars == <<updater, focus, panel>>

keyVars == <<mesh, mCaches, mCacheOwner, pc, op, written, trace,
             mData, stream, saved, orders, load, tasks, orphans>>

\* ------------------------------------------------------------------------
\* Steps
\* ------------------------------------------------------------------------
\* one step of an operation: what it does (e) and the Cache, or the node,
\* it does it to (c, 0 when there is none)
Ev(aWhat, aWhich) == [e |-> aWhat, c |-> aWhich]

\* the Caches for which aEvents holds a writeAsync request
WriteIds(aEvents) ==
    {aEvents[k].c : k \in {j \in 1..Len(aEvents) : aEvents[j].e = "write"}}

RECURSIVE Concat(_)
Concat(aSeqs) ==
    IF aSeqs = <<>> THEN <<>> ELSE Head(aSeqs) \o Concat(Tail(aSeqs))

\* ------------------------------------------------------------------------
\* BoneKey::Cache
\* ------------------------------------------------------------------------
\* QMatrix4x4(): the identity
IdentityMtx == 0

\* Cache::Cache(): a record at address aId with default members
NewCache(aId) ==
    [id |-> aId, node |-> NoNode, mtx |-> IdentityMtx, sign |-> 0, verts |-> 0]

\* Cache::setNode
setNode(aCache, aNode) == [aCache EXCEPT !.node = aNode]

Ids(aCaches) == {aCaches[i].id : i \in 1..Len(aCaches)}

\* operator new: an address no live Cache occupies
Alloc(aLive) == CHOOSE i \in 1..(Cardinality(aLive) + 1) :
                    i \notin aLive /\ \A j \in 1..(i - 1) : j \in aLive

\* TimeKeyBlender::getRelativeMatrix(node, time, owner) translated by the
\* negated centre offset of node: a value that depends on node and owner
InnerMatrix(aNode, aOwner) == aNode * (NumNodes + 1) + aOwner

\* the mesh test without the vertex count
HasVerticesNoCount(aMesh) == aMesh # NoMesh

\* the test both resetCaches and the core recompute apply to a mesh
HasVertices(aMesh) == ~(aMesh = NoMesh \/ aMesh.verts <= 0)

\* BoneKey::destroyCaches: the list and the owner it leaves
destroyCaches == [caches |-> <<>>, owner |-> NoNode]

\* the steps of destroyCaches on aCaches: qDeleteAll deletes every Cache,
\* then the list is cleared and the owner reset
destroyEvents(aCaches) ==
    [i \in 1..Len(aCaches) |-> Ev("delete", aCaches[i].id)]
        \o <<Ev("clear", 0)>>

\* ------------------------------------------------------------------------
\* BoneKey::findCache / popCache
\* ------------------------------------------------------------------------
\* a test that takes a Cache without a node for the Cache of any node
MatchesUnbound(aCache, aNode) ==
    aCache.node = NoNode \/ aCache.node = aNode

\* the test of the loop body: a bound Cache whose node is aNode
Matches(aCache, aNode) == aCache.node # NoNode /\ aCache.node = aNode

\* index of the first Cache of aCaches bound to aNode, 0 when there is none
FindIndex(aCaches, aNode) ==
    IF \E i \in 1..Len(aCaches) : Matches(aCaches[i], aNode)
    THEN CHOOSE i \in 1..Len(aCaches) :
            /\ Matches(aCaches[i], aNode)
            /\ \A j \in 1..(i - 1) : ~Matches(aCaches[j], aNode)
    ELSE 0

\* BoneKey::findCache: the id of the Cache found, 0 for nullptr
findCache(aCaches, aNode) ==
    LET i == FindIndex(aCaches, aNode) IN IF i = 0 THEN 0 ELSE aCaches[i].id

RemoveAt(s, i) == SubSeq(s, 1, i - 1) \o SubSeq(s, i + 1, Len(s))

\* a popCache that never finds the Cache
popCacheNever(aCaches, aNode) == [found |-> 0, rest |-> aCaches]

\* BoneKey::popCache: the index found (0 for nullptr) and the list left
popCache(aCaches, aNode) ==
    LET i == FindIndex(aCaches, aNode) IN
    [found |-> i,
     rest  |-> IF i = 0 THEN aCaches ELSE RemoveAt(aCaches, i)]

\* ------------------------------------------------------------------------
\* BoneKey::updateCaches(Project&, const QList<Cache*>&): the core recompute
\* ------------------------------------------------------------------------
\* Outcomes of mesh->frameSign() on a null mesh (line 117 dereferences the
\* pointer before line 119 tests it): the process dies, or some value is read
UbOutcomes == {[crash |-> TRUE, sign |-> 0]}
                  \cup [crash : {FALSE}, sign : FrameSigns]

IndexOfId(aCaches, aId) == CHOOSE i \in 1..Len(aCaches) : aCaches[i].id = aId

\* a core recompute that drops the Caches whose mesh has no vertices
CoreLoopPruning(aCaches, aOwner, aTargets, aUb, aEvents) ==
    [caches |-> SelectSeq(aCaches, LAMBDA c :
                    c.node # NoNode /\ mesh[c.node] # NoMesh
                        /\ mesh[c.node].verts > 0),
     events |-> aEvents,
     pc     |-> "run"]

\* one pass of the loop at lines 109-135 over aTargets (ids of Caches);
\* aEvents are the steps taken so far
RECURSIVE CoreLoop(_, _, _, _, _)
CoreLoop(aCaches, aOwner, aTargets, aUb, aEvents) ==
    IF aTargets = <<>>
    THEN [caches |-> aCaches, events |-> aEvents, pc |-> "run"]
    ELSE
        LET i     == IndexOfId(aCaches, Head(aTargets))
            cache == aCaches[i]
        IN
        IF cache.node = NoNode
        THEN [caches |-> aCaches,
              events |-> Append(aEvents, Ev("assert", cache.id)),
              pc     |-> "asserted"]
        ELSE
            LET m == mesh[cache.node] IN
            IF m = NoMesh /\ aUb.crash
            THEN [caches |-> aCaches,
                  events |-> Append(aEvents, Ev("crash", cache.id)),
                  pc     |-> "crashed"]
            ELSE
                LET sign   == IF m = NoMesh THEN aUb.sign ELSE m.sign
                    signed == [cache EXCEPT !.sign = sign]
                IN
                IF ~HasVertices(m)
                THEN CoreLoop([aCaches EXCEPT ![i] = signed], aOwner,
                              Tail(aTargets), aUb,
                              Append(aEvents, Ev("sign", cache.id)))
                ELSE CoreLoop(
                        [aCaches EXCEPT ![i] =
                            [signed EXCEPT
                                !.mtx = InnerMatrix(cache.node, aOwner),
                                !.verts = m.verts]],
                        aOwner, Tail(aTargets), aUb,
                        aEvents \o <<Ev("sign", cache.id),
                                     Ev("matrix", cache.id),
                                     Ev("allocate", cache.id),
                                     Ev("write", cache.id)>>)

\* the end of the routine when the loop is through: wakeAll at line 139,
\* then the QWriteLocker of line 106 goes out of scope at line 141
CoreEnd == <<Ev("wake", 0), Ev("unlock", 0)>>

\* the whole core routine: early return, owner assertion, the write lock,
\* the loop, the wake and the end of the lock's scope
updateCachesCore(aCaches, aOwner, aTargets, aUb) ==
    IF aTargets = <<>>
    THEN [caches |-> aCaches, events |-> <<>>, pc |-> "run"]
    ELSE IF aOwner = NoNode
    THEN [caches |-> aCaches, events |-> <<Ev("assert", 0)>>,
          pc |-> "asserted"]
    ELSE LET res == CoreLoop(aCaches, aOwner, aTargets, aUb,
                             <<Ev("lock", 0)>>)
         IN IF res.pc = "run"
            THEN [res EXCEPT !.events = @ \o CoreEnd]
            ELSE res

IdSeq(aCaches) == [i \in 1..Len(aCaches) |-> aCaches[i].id]

\* ------------------------------------------------------------------------
\* Bone forest (BoneKey::Data) and its serialization
\* ------------------------------------------------------------------------
\* Bone2::Bone2(): a bone with default fields and no children
NewBone == [f |-> 0, children |-> <<>>]

\* BoneKey::serializeBone: child count, the bone's fields, then the children
RECURSIVE serializeBone(_)
RECURSIVE serializeBones(_)
serializeBones(aBones) ==
    IF aBones = <<>> THEN <<>>
    ELSE serializeBone(Head(aBones)) \o serializeBones(Tail(aBones))
\* a serializeBone that writes the bone's fields before the child count
serializeBoneFieldsFirst(aBone) ==
    <<aBone.f, Len(aBone.children)>> \o serializeBones(aBone.children)

serializeBone(aBone) ==
    <<Len(aBone.children), aBone.f>> \o serializeBones(aBone.children)

\* Serializer::writeID: the ID of a node, the null ID for a null pointer
writeID(aNode) == aNode

\* the loop at lines 278-288: node ID, inner matrix, frame sign, influence
RECURSIVE serializeCaches(_)
serializeCaches(aCaches) ==
    IF aCaches = <<>> THEN <<>>
    ELSE LET c == Head(aCaches) IN
         <<writeID(c.node), c.mtx, c.sign, c.verts>>
            \o serializeCaches(Tail(aCaches))

\* BoneKey::serialize
serialize(aBones, aOwner, aCaches) ==
    <<Len(aBones)>> \o serializeBones(aBones)
        \o <<writeID(aOwner)>>
        \o <<Len(aCaches)>> \o serializeCaches(aCaches)

\* ------------------------------------------------------------------------
\* Deserializer: a read position and the stream's error flag
\* ------------------------------------------------------------------------
Reader == [pos |-> 1, ok |-> TRUE]

\* Deserializer::read: the value read (0 when the stream has failed)
Read(s, r) ==
    IF r.ok /\ r.pos <= Len(s)
    THEN [v |-> s[r.pos], r |-> [pos |-> r.pos + 1, ok |-> TRUE]]
    ELSE [v |-> 0, r |-> [pos |-> r.pos, ok |-> FALSE]]

\* Deserializer::checkStream
checkStream(r) == r.ok

\* a count test that lets every count pass
InvalidCountNever(aCount) == FALSE

\* the test on a count read from the stream (topBoneCount, childCount,
\* cacheCount)
InvalidCount(aCount) == aCount < 0

\* BoneKey::Data::deleteAll: the forest it leaves
deleteAll == <<>>

\* BoneKey::deserializeBone on a bone just constructed: the bone as it is
\* left, the reader, and the value returned
RECURSIVE deserializeBone(_, _)
RECURSIVE deserializeChildren(_, _, _, _)
deserializeChildren(s, r, aCount, aBone) ==
    IF aCount <= 0
    THEN [bone |-> aBone, r |-> r, ret |-> checkStream(r)]
    ELSE
        LET child == deserializeBone(s, r)
            bone  == [aBone EXCEPT
                        !.children = Append(aBone.children, child.bone)]
        IN
        IF ~child.ret
        THEN [bone |-> bone, r |-> child.r, ret |-> FALSE]
        ELSE deserializeChildren(s, child.r, aCount - 1, bone)
deserializeBone(s, r) ==
    LET count == Read(s, r) IN
    IF InvalidCount(count.v)
    THEN [bone |-> NewBone, r |-> count.r, ret |-> FALSE]
    ELSE
        LET field == Read(s, count.r)
            bone  == [NewBone EXCEPT !.f = field.v]
        IN
        IF ~checkStream(field.r)
        THEN [bone |-> bone, r |-> field.r, ret |-> FALSE]
        ELSE deserializeChildren(s, field.r, count.v, bone)

\* the loop at lines 334-343 over the top bones
RECURSIVE deserializeTopBones(_, _, _, _)
deserializeTopBones(s, r, aCount, aBones) ==
    IF aCount <= 0
    THEN [bones |-> aBones, r |-> r, ret |-> TRUE]
    ELSE
        LET top == deserializeBone(s, r) IN
        IF ~top.ret
        THEN [bones |-> Append(aBones, top.bone), r |-> top.r, ret |-> FALSE]
        ELSE deserializeTopBones(s, top.r, aCount - 1,
                                 Append(aBones, top.bone))

\* Deserializer::orderIDData: reads an ID and files the request
orderIDData(s, r) ==
    LET id == Read(s, r) IN [id |-> id.v, r |-> id.r, ret |-> id.r.ok]

\* the loop at lines 366-398: cache shells and the requests for their nodes
RECURSIVE deserializeCaches(_, _, _, _, _)
deserializeCaches(s, r, aCount, aCaches, aOrders) ==
    IF aCount <= 0
    THEN [caches |-> aCaches, orders |-> aOrders, r |-> r, ret |-> TRUE]
    ELSE
        LET shell == NewCache(Alloc(Ids(aCaches)))
            order == orderIDData(s, r)
        IN
        IF ~order.ret
        THEN [caches |-> Append(aCaches, shell), orders |-> aOrders,
              r |-> order.r, ret |-> FALSE]
        ELSE
            LET mtx   == Read(s, order.r)
                sign  == Read(s, mtx.r)
                infl  == Read(s, sign.r)
                cache == [shell EXCEPT !.mtx = mtx.v, !.sign = sign.v,
                                       !.verts = infl.v]
                filed == Append(aOrders,
                            [id |-> order.id, cache |-> Len(aCaches) + 1])
            IN
            IF ~checkStream(infl.r)
            THEN [caches |-> Append(aCaches, cache), orders |-> filed,
                  r |-> infl.r, ret |-> FALSE]
            ELSE deserializeCaches(s, infl.r, aCount - 1,
                                   Append(aCaches, cache), filed)

\* BoneKey::deserialize, phase one: what it leaves in the BoneKey, the
\* requests it filed (cache 0 stands for the cache owner) and its result
deserialize(s) ==
    LET topCount == Read(s, Reader) IN
    IF InvalidCount(topCount.v)
    THEN [bones |-> deleteAll, caches |-> destroyCaches.caches,
          orders |-> <<>>, ret |-> FALSE]
    ELSE
        LET tops == deserializeTopBones(s, topCount.r, topCount.v,
                                        deleteAll)
        IN
        IF ~tops.ret
        THEN [bones |-> tops.bones, caches |-> <<>>, orders |-> <<>>,
              ret |-> FALSE]
        ELSE
            LET owner == orderIDData(s, tops.r) IN
            IF ~owner.ret
            THEN [bones |-> tops.bones, caches |-> <<>>, orders |-> <<>>,
                  ret |-> FALSE]
            ELSE
                LET filed      == <<[id |-> owner.id, cache |-> 0]>>
                    cacheCount == Read(s, owner.r)
                IN
                IF InvalidCount(cacheCount.v)
                THEN [bones |-> tops.bones, caches |-> <<>>,
                      orders |-> filed, ret |-> FALSE]
                ELSE
                    LET cs == deserializeCaches(s, cacheCount.r,
                                    cacheCount.v, <<>>, filed)
                    IN
                    [bones |-> tops.bones, caches |-> cs.caches,
                     orders |-> cs.orders,
                     ret |-> cs.ret /\ checkStream(cs.r)]

\* a project file is loaded before the key is used: no stream is waiting to
\* be read and no ID request is waiting to be served
Loaded ==
    \/ load.phase = "none" /\ stream = <<>>
    \/ load.phase \in {"ok", "failed"}

\* ------------------------------------------------------------------------
\* BoneKey::resetCaches
\* ------------------------------------------------------------------------
\* the loop at lines 181-205: aOld is mCaches, aNew the temp list newCaches
RECURSIVE ResetLoop(_, _, _)
ResetLoop(aNodes, aOld, aNew) ==
    IF aNodes = <<>> THEN [old |-> aOld, new |-> aNew]
    ELSE
        LET node == Head(aNodes) IN
        IF ~HasVertices(mesh[node])
        THEN ResetLoop(Tail(aNodes), aOld, aNew)
        ELSE
            LET popped == popCache(aOld, node) IN
            IF popped.found # 0
            THEN ResetLoop(Tail(aNodes), popped.rest,
                           Append(aNew, aOld[popped.found]))
            ELSE ResetLoop(Tail(aNodes), aOld,
                    Append(aNew,
                        setNode(NewCache(Alloc(Ids(aOld) \cup Ids(aNew))),
                                node)))

\* a rebuild that calls destroyCaches first: nothing is left to pop
ResetListDestroyFirst(aOwner) ==
    destroyCaches.caches \o ResetLoop(Iterate(aOwner), <<>>, <<>>).new

\* the list resetCaches builds before it calls the core recompute
ResetList(aOwner) ==
    destroyCaches.caches \o ResetLoop(Iterate(aOwner), mCaches, <<>>).new

\* a recompute that leaves out the first entry of the list
ResetTargetsButFirst(aList) == SubSeq(IdSeq(aList), 2, Len(aList))

\* the argument of the call at line 219: mCaches, every entry of the list
ResetTargets(aList) == IdSeq(aList)

\* the steps of resetCaches before the core recompute: every node of the
\* subtree is visited and its Cache popped or created (lines 181-205), what
\* is left of the old list is destroyed (208), the temp list is copied into
\* mCaches (211-214) and the owner is set (217)
ResetEvents(aOwner) ==
    LET nodes == Iterate(aOwner)
        res   == ResetLoop(nodes, mCaches, <<>>)
        step(n) ==
            LET at == {i \in 1..Len(res.new) : res.new[i].node = n} IN
            IF at = {} THEN <<Ev("visit", n)>>
            ELSE LET c == res.new[CHOOSE i \in at : TRUE] IN
                 <<Ev("visit", n),
                   Ev(IF c.id \in Ids(mCaches) THEN "pop" ELSE "new", c.id)>>
    IN
    Concat([k \in 1..Len(nodes) |-> step(nodes[k])])
        \o destroyEvents(res.old)
        \o [i \in 1..Len(res.new) |-> Ev("push", res.new[i].id)]
        \o <<Ev("owner", aOwner)>>

ResetCaches(aOwner) ==
    /\ pc = "run"
    /\ Loaded
    /\ LET list == ResetList(aOwner)
           res  == updateCachesCore(list, aOwner, ResetTargets(list),
                                    [crash |-> TRUE, sign |-> 0])
       IN
       /\ mCaches' = res.caches
       /\ mCacheOwner' = aOwner
       /\ pc' = res.pc
       /\ written' = WriteIds(res.events)
       /\ trace' = ResetEvents(aOwner) \o res.events
    /\ op' = [name |-> "reset", owner |-> aOwner, scope |-> {}]
    /\ UNCHANGED <<mesh, serVars, dataVars, appVars>>

\* ------------------------------------------------------------------------
\* BoneKey::updateCaches(Project&, ObjectNode&, const QVector<ObjectNode*>&)
\* ------------------------------------------------------------------------
\* the inner loop at lines 155-166: collect the Caches of the nodes visited
RECURSIVE CollectNodes(_, _)
CollectNodes(aNodes, aList) ==
    IF aNodes = <<>> THEN aList
    ELSE
        LET cache == findCache(mCaches, Head(aNodes)) IN
        CollectNodes(Tail(aNodes),
            IF cache # 0 /\ cache \notin SeqRange(aList)
            THEN Append(aList, cache) ELSE aList)

\* the outer loop without the leftContainsRight test
RECURSIVE CollectRootsAnyRoot(_, _, _)
CollectRootsAnyRoot(aOwner, aRoots, aList) ==
    IF aRoots = <<>> THEN aList
    ELSE CollectRootsAnyRoot(aOwner, Tail(aRoots),
                             CollectNodes(Iterate(Head(aRoots)), aList))

\* the outer loop at lines 147-167
RECURSIVE CollectRoots(_, _, _)
CollectRoots(aOwner, aRoots, aList) ==
    IF aRoots = <<>> THEN aList
    ELSE IF ~leftContainsRight(aOwner, Head(aRoots))
    THEN CollectRoots(aOwner, Tail(aRoots), aList)
    ELSE CollectRoots(aOwner, Tail(aRoots),
                      CollectNodes(Iterate(Head(aRoots)), aList))

\* the owner assertion compiled out
OwnerAssertSkipped(aOwner) == TRUE

\* XC_ASSERT(!mCacheOwner || mCacheOwner.get() == &aOwner)
OwnerAssert(aOwner) == mCacheOwner = NoNode \/ mCacheOwner = aOwner

\* aUniqueRoots: sequences of distinct nodes
UniqueRoots ==
    {r \in UNION {[1..n -> Nodes] : n \in 0..NumNodes} :
        \A i, j \in 1..Len(r) : i # j => r[i] # r[j]}

\* the nodes under a root of aRoots that lies under (or is) aOwner
Scope(aOwner, aRoots) ==
    {n \in Nodes : \E k \in 1..Len(aRoots) :
        /\ leftContainsRight(aOwner, aRoots[k])
        /\ leftContainsRight(aRoots[k], n)}

\* the outcomes of the call that differ: those of line 117 when the mesh of
\* a target is null, one otherwise
UbChoices(aOwner, aRoots) ==
    IF \E i \in 1..Len(mCaches) :
            /\ mCaches[i].node \in Scope(aOwner, aRoots)
            /\ mesh[mCaches[i].node] = NoMesh
    THEN UbOutcomes
    ELSE {[crash |-> TRUE, sign |-> 0]}

UpdateCaches(aOwner, aUniqueRoots, aUb) ==
    /\ pc = "run"
    /\ Loaded
    /\ LET targets == CollectRoots(aOwner, aUniqueRoots, <<>>) IN
       IF ~OwnerAssert(aOwner)
       THEN /\ pc' = "asserted"
            /\ written' = {}
            /\ trace' = <<Ev("assert", 0)>>
            /\ UNCHANGED <<mCaches, mCacheOwner>>
       ELSE LET res == updateCachesCore(mCaches, aOwner, targets, aUb) IN
            /\ mCaches' = res.caches
            /\ mCacheOwner' = aOwner
            /\ pc' = res.pc
            /\ written' = WriteIds(res.events)
            /\ trace' = <<Ev("owner", aOwner)>> \o res.events
    /\ op' = [name |-> "update", owner |-> aOwner, scope |-> Scope(aOwner, aUniqueRoots)]
    /\ UNCHANGED <<mesh, serVars, dataVars, appVars>>

\* BoneKey::destroyCaches called on its own
DestroyCaches ==
    /\ pc = "run"
    /\ Loaded
    /\ mCaches' = destroyCaches.caches
    /\ mCacheOwner' = destroyCaches.owner
    /\ written' = {}
    /\ trace' = destroyEvents(mCaches)
    /\ op' = [name |-> "destroy", owner |-> NoNode, scope |-> {}]
    /\ UNCHANGED <<mesh, pc, serVars, dataVars, appVars>>

\* the scene is edited: the area mesh of one node changes
EditMesh(aNode, aMesh) ==
    /\ pc = "run"
    /\ Loaded
    /\ mesh[aNode] # aMesh
    /\ mesh' = [mesh EXCEPT ![aNode] = aMesh]
    /\ written' = {}
    /\ trace' = <<>>
    /\ op' = [name |-> "edit", owner |-> NoNode, scope |-> {}]
    /\ UNCHANGED <<mCaches, mCacheOwner, pc, serVars, dataVars, appVars>>

\* ------------------------------------------------------------------------
\* Saving and loading
\* ------------------------------------------------------------------------
\* the parts of a BoneKey that serialize writes
Snapshot == [bones |-> mData, owner |-> mCacheOwner, caches |-> mCaches]

Serialize ==
    /\ pc = "run"
    /\ load.phase = "none"
    /\ stream = <<>>
    /\ stream' = serialize(mData, mCacheOwner, mCaches)
    /\ saved' = Snapshot
    /\ op' = [name |-> "serialize", owner |-> NoNode, scope |-> {}]
    /\ written' = {}
    /\ trace' = <<>>
    /\ UNCHANGED <<mesh, mCaches, mCacheOwner, pc, mData, orders, load, dataVars, appVars>>

\* What can have happened to the stream between saving and loading: nothing,
\* the end is missing from position at on, or the value at position at is v
StreamValues == -1..(NumNodes + 1)
Damages(s) ==
    {[kind |-> "none", at |-> 0, v |-> 0]}
        \cup [kind : {"cut"}, at : 1..Len(s), v : {0}]
        \cup {d \in [kind : {"set"}, at : 1..Len(s), v : StreamValues] :
                s[d.at] # d.v}
Damage(s, d) ==
    IF d.kind = "cut" THEN SubSeq(s, 1, d.at - 1)
    ELSE IF d.kind = "set" THEN [s EXCEPT ![d.at] = d.v]
    ELSE s

\* BoneKey::deserialize on the stream as it arrives
Deserialize(d) ==
    /\ pc = "run"
    /\ load.phase = "none"
    /\ stream # <<>>
    /\ LET res == deserialize(Damage(stream, d)) IN
       /\ mData' = res.bones
       /\ mCaches' = res.caches
       /\ mCacheOwner' = destroyCaches.owner
       /\ orders' = res.orders
       /\ load' = [phase |-> IF res.ret THEN "read" ELSE "failed",
                   clean |-> d.kind = "none"]
    /\ stream' = Damage(stream, d)
    /\ op' = [name |-> "deserialize", owner |-> NoNode, scope |-> {}]
    /\ written' = {}
    /\ trace' = <<Ev("deleteAll", 0)>>
                    \o destroyEvents(mCaches)
                    \o <<Ev("read", 0)>>
                    \o [i \in 1..Len(mCaches') |-> Ev("push", mCaches'[i].id)]
    /\ UNCHANGED <<mesh, pc, saved, dataVars, appVars>>

\* a phase two that takes every ID for resolved
ResolvesAnything(aId) == TRUE

\* phase two: an ID names a node of the graph, or is the null ID, or
\* does not resolve
Resolves(aId) == aId \in Nodes \cup {writeID(NoNode)}

\* solver lambdas that all bind the first Cache
solveFirstCache(aState, aOrder) ==
    IF aOrder.id = writeID(NoNode) THEN aState
    ELSE IF aOrder.cache = 0 THEN [aState EXCEPT !.owner = aOrder.id]
    ELSE [aState EXCEPT !.caches[1] = setNode(@, aOrder.id)]

\* the solver lambdas at lines 347-350 and 373-376
solve(aState, aOrder) ==
    IF aOrder.id = writeID(NoNode) THEN aState
    ELSE IF aOrder.cache = 0 THEN [aState EXCEPT !.owner = aOrder.id]
    ELSE [aState EXCEPT
            !.caches[aOrder.cache] = setNode(@, aOrder.id)]

\* the requests are served in the order they were filed; the first ID that
\* does not resolve fails the load
RECURSIVE SolveLoop(_, _)
SolveLoop(aOrders, aState) ==
    IF aOrders = <<>> THEN [state |-> aState, ret |-> TRUE]
    ELSE IF ~Resolves(Head(aOrders).id)
    THEN [state |-> aState, ret |-> FALSE]
    ELSE SolveLoop(Tail(aOrders), solve(aState, Head(aOrders)))

Solve ==
    /\ pc = "run"
    /\ load.phase = "read"
    /\ LET res == SolveLoop(orders,
                    [owner |-> mCacheOwner, caches |-> mCaches])
       IN
       /\ mCaches' = res.state.caches
       /\ mCacheOwner' = res.state.owner
       /\ load' = [load EXCEPT !.phase = IF res.ret THEN "ok" ELSE "failed"]
    /\ orders' = <<>>
    /\ stream' = <<>>
    /\ op' = [name |-> "solve", owner |-> NoNode, scope |-> {}]
    /\ written' = {}
    /\ trace' = <<>>
    /\ UNCHANGED <<mesh, pc, mData, saved, dataVars, appVars>>

\* ------------------------------------------------------------------------
\* The worker pool
\* ------------------------------------------------------------------------
\* the addresses a Cache can be at
Addrs == 1..(2 * NumNodes)

NoTasks == [c \in Addrs |-> 0]

\* the Caches the operation deleted
Deleted(aEvents) ==
    {aEvents[k].c : k \in {j \in 1..Len(aEvents) : aEvents[j].e = "delete"}}

RECURSIVE Sum(_, _)
Sum(f, S) ==
    IF S = {} THEN 0
    ELSE LET x == CHOOSE y \in S : TRUE IN f[x] + Sum(f, S \ {x})

\* no computation is left when the operation is through
PoolDrained == tasks' = NoTasks /\ orphans' = 0

\* The pool after an operation: writeAsync has queued one computation for
\* every Cache it was called on and has returned without waiting; a Cache
\* that was deleted leaves its computations in the queue
PoolSubmitted ==
    LET gone == Deleted(trace') \cap Addrs IN
    /\ orphans' = orphans + Sum(tasks, gone)
    /\ tasks' = [c \in Addrs |->
                    IF c \in gone THEN 0
                    ELSE tasks[c] + (IF c \in written' THEN 1 ELSE 0)]
    /\ orphans' <= MaxInFlight
    /\ \A c \in Addrs : tasks'[c] <= MaxInFlight

\* a worker runs a computation scheduled for the Cache at aCache to its
\* end: the weights go to the influence map of that Cache
Worker(aCache) ==
    /\ pc = "run"
    /\ tasks[aCache] > 0
    /\ tasks' = [tasks EXCEPT ![aCache] = @ - 1]
    /\ op' = [name |-> "worker", owner |-> NoNode, scope |-> {}]
    /\ written' = {}
    /\ trace' = <<Ev("compute", aCache)>>
    /\ UNCHANGED <<mesh, mCaches, mCacheOwner, pc, orphans, serVars, dataVars, appVars>>

\* a worker runs a computation whose Cache was deleted: it writes to the
\* storage of an influence map that is gone, and the process dies or not
WorkerFreed(aUb) ==
    /\ pc = "run"
    /\ orphans > 0
    /\ orphans' = orphans - 1
    /\ pc' = aUb
    /\ op' = [name |-> "worker", owner |-> NoNode, scope |-> {}]
    /\ written' = {}
    /\ trace' = <<Ev("computeFreed", 0)>>
    /\ UNCHANGED <<mesh, mCaches, mCacheOwner, tasks, serVars, dataVars, appVars>>

\* ------------------------------------------------------------------------
\* BoneKey::Data as a value: copies, assignment, destruction
\* ------------------------------------------------------------------------
\* the Data values at hand: one and a copy of it
DataIds == {1, 2}

\* the addresses a Bone2 can be at
BoneAddrs == 1..(2 * MaxBones)

\* an address no bone is at
NoBone == [f |-> -1, children |-> <<>>]

NoBones == [a \in BoneAddrs |-> NoBone]

\* a Data that is not constructed, or is destroyed
NoData == [alive |-> FALSE, top |-> <<>>]

\* the addresses reached from the bones at aTops, the bones themselves
\* included
RECURSIVE ReachOf(_, _)
ReachOf(aHeap, aTops) ==
    UNION {{aTops[i]} \cup
            (IF aHeap[aTops[i]] = NoBone THEN {}
             ELSE ReachOf(aHeap, aHeap[aTops[i]].children)) :
           i \in 1..Len(aTops)}

\* the forest at aTops as a value: fields and children in order
RECURSIVE ShapeOf(_, _)
ShapeOf(aHeap, aTops) ==
    [i \in 1..Len(aTops) |->
        IF aHeap[aTops[i]] = NoBone THEN NoBone
        ELSE [f |-> aHeap[aTops[i]].f,
              children |-> ShapeOf(aHeap, aHeap[aTops[i]].children)]]

\* operator new: the first address no bone is at
AllocBone(aHeap) ==
    CHOOSE a \in BoneAddrs :
        aHeap[a] = NoBone /\ \A b \in 1..(a - 1) : aHeap[b] # NoBone

\* util::TreeUtil::createClone on each bone of aBones in turn: new bones
\* with the fields of the old ones and clones of their children
RECURSIVE createClones(_, _)
createClones(aHeap, aBones) ==
    IF aBones = <<>> THEN [heap |-> aHeap, list |-> <<>>]
    ELSE
        LET kids  == createClones(aHeap, aHeap[Head(aBones)].children)
            at    == AllocBone(kids.heap)
            heap  == [kids.heap EXCEPT ![at] =
                        [f |-> aHeap[Head(aBones)].f,
                         children |-> kids.list]]
            rest  == createClones(heap, Tail(aBones))
        IN [heap |-> rest.heap, list |-> <<at>> \o rest.list]

\* a copy that takes the pointers as they are
CopyBonesShallow(aHeap, aTops) == [heap |-> aHeap, list |-> aTops]

\* the loop of the copy constructor and of operator=: the clone of every
\* top bone of the right hand side is pushed to mTopBones
CopyBones(aHeap, aTops) == createClones(aHeap, aTops)

\* qDeleteAll on aBones: every bone is deleted and deletes its children;
\* twice tells that an address was deleted at which no bone was
RECURSIVE qDeleteAll(_, _)
qDeleteAll(aHeap, aBones) ==
    IF aBones = <<>> THEN [heap |-> aHeap, twice |-> FALSE]
    ELSE
        LET at == Head(aBones) IN
        IF aHeap[at] = NoBone
        THEN [qDeleteAll(aHeap, Tail(aBones)) EXCEPT !.twice = TRUE]
        ELSE
            LET kids == qDeleteAll(aHeap, aHeap[at].children)
                rest == qDeleteAll([kids.heap EXCEPT ![at] = NoBone],
                                   Tail(aBones))
            IN [heap |-> rest.heap, twice |-> kids.twice \/ rest.twice]

\* the forests of the Data values as they are now
Shapes == [d \in DataIds |-> ShapeOf(bones, datas[d].top)]

NoDataOp == [name |-> "none", d |-> 0, s |-> 0,
             before |-> [d \in DataIds |-> <<>>], twice |-> FALSE,
             node |-> 0, ret |-> FALSE]

\* what the operation aName on aDst (from aSrc) leaves in dop
DataOp(aName, aDst, aSrc, aTwice) ==
    [name |-> aName, d |-> aDst, s |-> aSrc, before |-> Shapes,
     twice |-> dop.twice \/ aTwice, node |-> 0, ret |-> FALSE]

\* Data::Data()
DataNew(aDst) ==
    /\ ~datas[aDst].alive
    /\ datas' = [datas EXCEPT ![aDst] = [alive |-> TRUE, top |-> <<>>]]
    /\ dop' = DataOp("new", aDst, 0, FALSE)
    /\ UNCHANGED <<bones, keyVars, appVars>>

\* Data::Data(const Data& aRhs)
DataCopy(aDst, aSrc) ==
    /\ aDst # aSrc
    /\ ~datas[aDst].alive
    /\ datas[aSrc].alive
    /\ LET copy == CopyBones(bones, datas[aSrc].top) IN
       /\ bones' = copy.heap
       /\ datas' = [datas EXCEPT ![aDst] =
                        [alive |-> TRUE, top |-> copy.list]]
    /\ dop' = DataOp("copy", aDst, aSrc, FALSE)
    /\ UNCHANGED <<keyVars, appVars>>

\* Data::operator=(const Data& aRhs): deleteAll, then the clones of what
\* aRhs holds at that time (nothing, when aRhs is the Data itself)
DataAssign(aDst, aSrc) ==
    /\ datas[aDst].alive
    /\ datas[aSrc].alive
    /\ LET gone == qDeleteAll(bones, datas[aDst].top)
           tops == IF aSrc = aDst THEN <<>> ELSE datas[aSrc].top
           copy == CopyBones(gone.heap, tops)
       IN
       /\ bones' = copy.heap
       /\ datas' = [datas EXCEPT ![aDst].top = copy.list]
       /\ dop' = DataOp("assign", aDst, aSrc, gone.twice)
    /\ UNCHANGED <<keyVars, appVars>>

\* Data::~Data()
DataDestroy(aDst) ==
    /\ datas[aDst].alive
    /\ LET gone == qDeleteAll(bones, datas[aDst].top) IN
       /\ bones' = gone.heap
       /\ dop' = DataOp("destroy", aDst, 0, gone.twice)
    /\ datas' = [datas EXCEPT ![aDst] = NoData]
    /\ UNCHANGED <<keyVars, appVars>>

\* the bones of the Data aDst
BonesOf(aDst) == ReachOf(bones, datas[aDst].top)

\* an editor adds a bone through topBones(): a top bone (aParent = 0) or a
\* child of a bone of the Data
AddBone(aDst, aParent, aField) ==
    /\ datas[aDst].alive
    /\ Cardinality(BonesOf(aDst)) < MaxBones
    /\ \E a \in BoneAddrs : bones[a] = NoBone
    /\ LET at == AllocBone(bones)
           made == [bones EXCEPT ![at] = [f |-> aField, children |-> <<>>]]
       IN
       IF aParent = 0
       THEN /\ bones' = made
            /\ datas' = [datas EXCEPT ![aDst].top = Append(@, at)]
       ELSE /\ aParent \in BonesOf(aDst)
            /\ bones[aParent] # NoBone
            /\ bones' = [made EXCEPT ![aParent].children = Append(@, at)]
            /\ datas' = datas
    /\ dop' = DataOp("add", aDst, 0, FALSE)
    /\ UNCHANGED <<keyVars, appVars>>

\* an editor takes the top bone at aIndex out of the Data and deletes it
RemoveTopBone(aDst, aIndex) ==
    /\ datas[aDst].alive
    /\ aIndex \in 1..Len(datas[aDst].top)
    /\ LET gone == qDeleteAll(bones, <<datas[aDst].top[aIndex]>>) IN
       /\ bones' = gone.heap
       /\ dop' = DataOp("remove", aDst, 0, gone.twice)
    /\ datas' = [datas EXCEPT ![aDst].top = RemoveAt(@, aIndex)]
    /\ UNCHANGED <<keyVars, appVars>>

\* Bone2::isBinding(aNode): the bone binds the node its field names (0 names
\* none)
Binds(aBone, aNode) == aBone.f = aNode

\* the bones Bone2::ConstIterator visits from the bones of aList: each bone,
\* then its children's subtrees in order
RECURSIVE PreOrder(_, _)
PreOrder(aHeap, aList) ==
    IF aList = <<>> THEN <<>>
    ELSE <<Head(aList)>> \o PreOrder(aHeap, aHeap[Head(aList)].children)
                        \o PreOrder(aHeap, Tail(aList))

\* a lookup that asks the top bones only
isBindingTopOnly(aHeap, aTops, aNode) ==
    \E i \in 1..Len(aTops) : Binds(aHeap[aTops[i]], aNode)

\* Data::isBinding(aNode): true at the first bone visited that binds aNode
isBinding(aHeap, aTops, aNode) ==
    LET visited == PreOrder(aHeap, aTops) IN
    \E i \in 1..Len(visited) : Binds(aHeap[visited[i]], aNode)

\* a caller asks the Data aDst whether it binds aNode
IsBinding(aDst, aNode) ==
    /\ datas[aDst].alive
    /\ dop' = [DataOp("isBinding", aDst, 0, FALSE) EXCEPT
                  !.node = aNode,
                  !.ret = isBinding(bones, datas[aDst].top, aNode)]
    /\ UNCHANGED <<bones, datas, keyVars, appVars>>

\* an editor changes a bone of the Data
SetBone(aDst, aBone, aField) ==
    /\ datas[aDst].alive
    /\ aBone \in BonesOf(aDst)
    /\ bones[aBone] # NoBone
    /\ bones[aBone].f # aField
    /\ bones' = [bones EXCEPT ![aBone].f = aField]
    /\ dop' = DataOp("set", aDst, 0, FALSE)
    /\ UNCHANGED <<datas, keyVars, appVars>>

\* ------------------------------------------------------------------------
\* ctrl::TimeLineFocus over one row with one key type and no child nodes
\* ------------------------------------------------------------------------
MaxFrame == 2

\* where the pointer can be: on the row (y = 10) or off it (y = 0)
Points == [x : 0..(MaxFrame + 4), y : {0, 10}]

\* TimeLineFocus::mMargin, the constructor's aMargin
mMargin == 1

\* TimeLineFocus::mRadius
mRadius == 5

\* TimeLineRow::rect of the row, top and bottom
RowRect == [top |-> 5, bottom |-> 15]

\* TimeLineRow::keyHeight of the row's one key type
keyHeight == 10

\* QPoint()
NullPoint == [x |-> 0, y |-> 0]

\* QRect()
NullRect == [left |-> 0, right |-> -1, top |-> 0, bottom |-> -1]

\* TimeLineScale::frame at one pixel a frame
frame(aPixel) == aPixel

\* TimeLineScale::pixelWidth at one pixel a frame
pixelWidth(aFrame) == aFrame

\* SingleFocus::SingleFocus(): no node, a null position
NoSingle == [node |-> 0, pos |-> [line |-> 0, index |-> 0]]

\* SingleFocus::isValid
isValid(aSingle) == aSingle.node # 0 /\ aSingle.pos.line # 0

\* TimeLineFocus::boundingRect
boundingRect(aRange) ==
    [left   |-> pixelWidth(aRange.left) + mMargin,
     right  |-> pixelWidth(aRange.right) + mMargin,
     top    |-> aRange.top - mRadius,
     bottom |-> aRange.bottom + mRadius]

\* the keys the loops of updateImpl come by: none when the row's rect misses
\* the box or the key height lies outside it, else the keys of the row from
\* lowerBound(mRange.left()) up to mRange.right()
KeysInRange(aKeys, aRange) ==
    LET box == boundingRect(aRange) IN
    IF \/ RowRect.bottom < box.top
       \/ box.bottom < RowRect.top
       \/ keyHeight < box.top
       \/ box.bottom < keyHeight
    THEN {}
    ELSE {f \in aKeys : aRange.left <= f /\ f <= aRange.right}

\* TimeLineFocus::updateImpl: the first key found when aForceSingle, else
\* the last one; a default SingleFocus when none is found
updateImpl(aKeys, aRange, aForceSingle) ==
    LET found == KeysInRange(aKeys, aRange) IN
    IF found = {} THEN NoSingle
    ELSE LET first == CHOOSE f \in found : \A g \in found : f <= g
             last  == CHOOSE f \in found : \A g \in found : g <= f
         IN [node |-> 1,
             pos  |-> [line |-> 1,
                       index |-> IF aForceSingle THEN first ELSE last]]

\* the TimeLineFocus after construction, over a row without keys
NewFocus ==
    [mPoint |-> NullPoint, mRange |-> NullRect,
     mFoundFocus |-> FALSE, mViewIsChanged |-> FALSE,
     keys |-> {},
     call |-> "new", ret |-> FALSE, prev |-> FALSE]

\* a reset that reports a change of view every time
resetAlwaysChanged(aFocus, aPoint) ==
    LET range  == [left   |-> frame((aPoint.x - 2) - mMargin),
                   right  |-> frame((aPoint.x + 2) - mMargin),
                   top    |-> aPoint.y,
                   bottom |-> aPoint.y]
        single == updateImpl(aFocus.keys, range, TRUE)
    IN [aFocus EXCEPT !.mPoint = aPoint, !.mRange = range,
                      !.mViewIsChanged = TRUE,
                      !.mFoundFocus = isValid(single),
                      !.call = "reset", !.ret = single,
                      !.prev = aFocus.mFoundFocus]

\* TimeLineFocus::reset
reset(aFocus, aPoint) ==
    LET range  == [left   |-> frame((aPoint.x - 2) - mMargin),
                   right  |-> frame((aPoint.x + 2) - mMargin),
                   top    |-> aPoint.y,
                   bottom |-> aPoint.y]
        single == updateImpl(aFocus.keys, range, TRUE)
        foundFocus == isValid(single)
    IN [aFocus EXCEPT !.mPoint = aPoint, !.mRange = range,
                      !.mViewIsChanged = (foundFocus # aFocus.mFoundFocus),
                      !.mFoundFocus = foundFocus,
                      !.call = "reset", !.ret = single,
                      !.prev = aFocus.mFoundFocus]

\* TimeLineFocus::update
update(aFocus, aPoint) ==
    LET frame0 == frame(aFocus.mPoint.x - mMargin)
        frame1 == frame(aPoint.x - mMargin)
        range  == [left   |-> IF frame0 <= frame1 THEN frame0 ELSE frame1,
                   right  |-> IF frame0 <= frame1 THEN frame1 ELSE frame0,
                   top    |-> IF aFocus.mPoint.y <= aPoint.y
                              THEN aFocus.mPoint.y ELSE aPoint.y,
                   bottom |-> IF aFocus.mPoint.y <= aPoint.y
                              THEN aPoint.y ELSE aFocus.mPoint.y]
        single == updateImpl(aFocus.keys, range, FALSE)
        foundFocus == isValid(single)
    IN [aFocus EXCEPT !.mRange = range,
                      !.mViewIsChanged = (foundFocus # aFocus.mFoundFocus),
                      !.mFoundFocus = foundFocus,
                      !.call = "update", !.ret = foundFocus,
                      !.prev = aFocus.mFoundFocus]

\* TimeLineFocus::clear
clear(aFocus) ==
    [aFocus EXCEPT !.mPoint = NullPoint, !.mRange = NullRect,
                   !.mFoundFocus = FALSE, !.mViewIsChanged = TRUE,
                   !.call = "clear", !.ret = FALSE,
                   !.prev = aFocus.mFoundFocus]

FocusReset(aPoint) ==
    /\ focus' = reset(focus, aPoint)
    /\ UNCHANGED <<keyVars, dataVars, updater, panel>>

FocusUpdate(aPoint) ==
    /\ focus' = update(focus, aPoint)
    /\ UNCHANGED <<keyVars, dataVars, updater, panel>>

FocusClear ==
    /\ focus' = clear(focus)
    /\ UNCHANGED <<keyVars, dataVars, updater, panel>>

\* an editor puts a key on the row at aFrame or takes the one there away
FocusEditKey(aFrame) ==
    /\ focus' = [focus EXCEPT
                    !.keys = IF aFrame \in @ THEN @ \ {aFrame}
                             ELSE @ \cup {aFrame},
                    !.call = "edit", !.ret = FALSE,
                    !.prev = focus.mFoundFocus]
    /\ UNCHANGED <<keyVars, dataVars, updater, panel>>

\* ------------------------------------------------------------------------
\* core::ImageResourceUpdater, a cmnd::Stable on the image keys of a TimeLine
\* ------------------------------------------------------------------------
MaxToggles == 3

\* the frames of the image keys of the TimeLine
ImageKeys == {1, 2}

\* the image resources, by the serial address of their data
Images == {1, 2, 3}

\* the resource events: per image the handle of the node that
\* ResourceEvent::findTarget finds for its serial address, 0 for nullptr
Events == [Images -> Images \cup {0}]

\* mEvent.findTarget(resource->serialAddress()), then node->handle()
findTarget(aEvent, aImage) == aEvent[aImage]

\* no ImageResourceUpdater
NoUpdater ==
    [phase |-> "none", resource |-> [k \in ImageKeys |-> 1],
     event |-> [i \in Images |-> 0], mTargets |-> <<>>,
     before |-> [k \in ImageKeys |-> 1], toggles |-> 0]

\* ImageResourceUpdater::ImageResourceUpdater on a TimeLine whose image keys
\* hold aResource
NewUpdater(aResource, aEvent) ==
    [phase |-> "new", resource |-> aResource, event |-> aEvent,
     mTargets |-> <<>>, before |-> aResource, toggles |-> 0]

\* the loop at lines 42-56 over the keys from aKey on
RECURSIVE CollectTargets(_, _, _, _)
CollectTargets(aResource, aEvent, aKey, aTargets) ==
    IF aKey \notin ImageKeys THEN aTargets
    ELSE
        LET node == findTarget(aEvent, aResource[aKey]) IN
        CollectTargets(aResource, aEvent, aKey + 1,
            IF node # 0
            THEN Append(aTargets, [key |-> aKey,
                                   prevImage |-> aResource[aKey],
                                   nextImage |-> node])
            ELSE aTargets)

\* the loops over mTargets that give every target key the image aWhich
\* ("prevImage" or "nextImage") of its entry
RECURSIVE SetImages(_, _, _)
SetImages(aResource, aTargets, aWhich) ==
    IF aTargets = <<>> THEN aResource
    ELSE SetImages(
            [aResource EXCEPT ![Head(aTargets).key] = Head(aTargets)[aWhich]],
            Tail(aTargets), aWhich)

\* ImageResourceUpdater::exec
exec(aUpdater) ==
    LET targets == CollectTargets(aUpdater.resource, aUpdater.event, 1,
                                  aUpdater.mTargets)
    IN [aUpdater EXCEPT
            !.mTargets = targets,
            !.resource = SetImages(@, targets, "nextImage")]

\* ImageResourceUpdater::redo
redo(aUpdater) ==
    [aUpdater EXCEPT
        !.resource = SetImages(@, aUpdater.mTargets, "nextImage")]

\* an undo that leaves every target at its next image
undoKeepsNext(aUpdater) ==
    [aUpdater EXCEPT
        !.resource = SetImages(@, aUpdater.mTargets, "nextImage")]

\* ImageResourceUpdater::undo
undo(aUpdater) ==
    [aUpdater EXCEPT
        !.resource = SetImages(@, aUpdater.mTargets, "prevImage")]

\* the command stack executes the command pushed to it
ImageExec ==
    /\ updater.phase = "new"
    /\ updater' = [exec(updater) EXCEPT !.phase = "done",
                                        !.before = updater.resource]
    /\ UNCHANGED <<keyVars, dataVars, focus, panel>>

\* the command stack undoes the command it executed or redid last
ImageUndo ==
    /\ updater.phase = "done"
    /\ updater.toggles < MaxToggles
    /\ updater' = [undo(updater) EXCEPT !.phase = "undone",
                                        !.toggles = @ + 1]
    /\ UNCHANGED <<keyVars, dataVars, focus, panel>>

\* the command stack redoes the command it undid last
ImageRedo ==
    /\ updater.phase = "undone"
    /\ updater.toggles < MaxToggles
    /\ updater' = [redo(updater) EXCEPT !.phase = "done",
                                        !.toggles = @ + 1]
    /\ UNCHANGED <<keyVars, dataVars, focus, panel>>

\* ------------------------------------------------------------------------
\* gui::prop::ObjectPanel: the key panels, and the attributes of the target
\* ------------------------------------------------------------------------
MaxCommands == 2

\* SRTPanel, OpaPanel, PosePanel and FFDPanel
KeyPanels == {"SRT", "Opa", "Pose", "FFD"}

\* the panels whose setKeyExists takes aIsKnockable
Knockables == {"Pose", "FFD"}

\* the attributes ObjectPanel assigns and the values they take here
Attrs == {"depth", "blendMode", "isClipped"}

AttrValues(aAttr) == IF aAttr = "isClipped" THEN BOOLEAN ELSE {0, 1}

\* SRTPanel::setKeyExists, OpaPanel::setKeyExists
setKeyExists(aKeyPanel, aIsExists) ==
    [aKeyPanel EXCEPT !.mKeyExists = aIsExists,
                      !.knocker = ~aIsExists,
                      !.group = aIsExists]

\* a setKeyExists that shows the knocker of every knockable key
setKeyExistsShowsKnocker(aKeyPanel, aIsExists, aIsKnockable) ==
    [aKeyPanel EXCEPT !.mKeyExists = aIsExists,
                      !.knocker = aIsKnockable,
                      !.group = aIsExists]

\* PosePanel::setKeyExists, FFDPanel::setKeyExists
setKeyExistsKnockable(aKeyPanel, aIsExists, aIsKnockable) ==
    [aKeyPanel EXCEPT !.mKeyExists = aIsExists,
                      !.knocker = ~aIsExists /\ aIsKnockable,
                      !.group = aIsExists]

\* setEnabled of the four panels
setEnabled(aKeyPanel, aEnabled) == [aKeyPanel EXCEPT !.enabled = aEnabled]

\* keyExists of the four panels
keyExists(aKeyPanel) == aKeyPanel.mKeyExists

\* the constructors of the four panels: mKeyExists(false), setEnabled(false)
\* and setKeyExists(false) or setKeyExists(false, false); knocker and group
\* are the values given to setVisible
NewKeyPanel(aKind) ==
    LET made == [mKeyExists |-> FALSE, knocker |-> FALSE, group |-> FALSE,
                 enabled |-> TRUE]
    IN IF aKind \in Knockables
       THEN setKeyExistsKnockable(setEnabled(made, FALSE), FALSE, FALSE)
       ELSE setKeyExists(setEnabled(made, FALSE), FALSE)

\* ObjectNodeAttrNotifier::onExecuted, onUndone, onRedone: the aIsUndo given
\* to Project::onNodeAttributeModified
onExecuted == FALSE

onUndone == TRUE

onRedone == FALSE

\* an ObjectPanel after construction with a target whose attributes have
\* their first values, and the empty command stack of the project; last
\* keeps what the last setKeyExists of each panel was given (a key of the
\* SRT or the Opa panel is always knockable)
NewPanel ==
    [key   |-> [k \in KeyPanels |-> NewKeyPanel(k)],
     last  |-> [k \in KeyPanels |->
                    [exists |-> FALSE, knockable |-> k \notin Knockables]],
     call  |-> "new", which |-> "none",
     attr  |-> [a \in Attrs |-> IF a = "isClipped" THEN FALSE ELSE 0],
     stack |-> <<>>, done |-> 0, note |-> "none"]

\* a call of setKeyExists on the panel aKind
SetKeyExists(aKind, aIsExists, aIsKnockable) ==
    /\ aKind \notin Knockables => aIsKnockable
    /\ panel' = [panel EXCEPT
            !.key[aKind] =
                IF aKind \in Knockables
                THEN setKeyExistsKnockable(@, aIsExists, aIsKnockable)
                ELSE setKeyExists(@, aIsExists),
            !.last[aKind] = [exists |-> aIsExists,
                             knockable |-> aIsKnockable],
            !.call = "setKeyExists", !.which = aKind]
    /\ UNCHANGED <<keyVars, dataVars, updater, focus>>

\* a call of setEnabled on the panel aKind
SetEnabled(aKind, aEnabled) ==
    /\ panel.key[aKind].enabled # aEnabled
    /\ panel' = [panel EXCEPT !.key[aKind] = setEnabled(@, aEnabled),
                              !.call = "setEnabled", !.which = aKind]
    /\ UNCHANGED <<keyVars, dataVars, updater, focus>>

\* an assignDepth whose undo lambda sets the new value again
assignDepthUndoNew(aAttr, aValue) ==
    [attr |-> "depth", exec |-> aValue, undo |-> aValue]

\* ObjectPanel::assignDepth: the Delegatable it pushes, with what its exec
\* and undo lambdas set
assignDepth(aAttr, aValue) ==
    [attr |-> "depth", exec |-> aValue, undo |-> aAttr["depth"]]

\* ObjectPanel::assignBlendMode
assignBlendMode(aAttr, aValue) ==
    [attr |-> "blendMode", exec |-> aValue, undo |-> aAttr["blendMode"]]

\* ObjectPanel::assignClipped
assignClipped(aAttr, aValue) ==
    [attr |-> "isClipped", exec |-> aValue, undo |-> aAttr["isClipped"]]

\* one of the three assignments on a target with a renderer: the macro with
\* its one command is pushed and executed, the commands undone before are
\* dropped, and the notifier hears onExecuted; was keeps the attributes of
\* the target as they were when the assignment was made
Assign(aName, aValue) ==
    /\ panel.done < MaxCommands
    /\ LET cmd == IF aName = "depth"
                  THEN assignDepth(panel.attr, aValue)
                  ELSE IF aName = "blendMode"
                  THEN assignBlendMode(panel.attr, aValue)
                  ELSE assignClipped(panel.attr, aValue)
       IN
       panel' = [panel EXCEPT
            !.stack = Append(SubSeq(@, 1, panel.done),
                             [cmd |-> cmd, was |-> panel.attr]),
            !.done = @ + 1,
            !.attr[cmd.attr] = cmd.exec,
            !.note = onExecuted,
            !.call = "assign", !.which = aName]
    /\ UNCHANGED <<keyVars, dataVars, updater, focus>>

\* the command stack undoes the last command in effect
AttrUndo ==
    /\ panel.done > 0
    /\ LET cmd == panel.stack[panel.done].cmd IN
       panel' = [panel EXCEPT
            !.done = @ - 1,
            !.attr[cmd.attr] = cmd.undo,
            !.note = onUndone,
            !.call = "undo", !.which = cmd.attr]
    /\ UNCHANGED <<keyVars, dataVars, updater, focus>>

\* the command stack redoes the command undone last
AttrRedo ==
    /\ panel.done < Len(panel.stack)
    /\ LET cmd == panel.stack[panel.done + 1].cmd IN
       panel' = [panel EXCEPT
            !.done = @ + 1,
            !.attr[cmd.attr] = cmd.exec,
            !.note = onRedone,
            !.call = "redo", !.which = cmd.attr]
    /\ UNCHANGED <<keyVars, dataVars, updater, focus>>

\* ------------------------------------------------------------------------
\* Specification
\* ------------------------------------------------------------------------
\* The cache records a project file can hold: any node ID, also the null ID,
\* an ID that names no node and the same ID twice
FileCaches ==
    UNION {[1..n -> [id : {0}, node : 0..(NumNodes + 1),
                     mtx : {IdentityMtx}, sign : {0}, verts : {0}]] :
            n \in 0..2}

Files ==
    {serialize(<<>>, o, cs) : o \in Nodes \cup {NoNode}, cs \in FileCaches}

\* BoneKey::BoneKey() in a scene whose nodes have no mesh yet, with no
\* project file or with one to load
Init ==
    /\ mesh = [n \in Nodes |-> NoMesh]
    /\ mCaches = <<>>
    /\ mCacheOwner = NoNode
    /\ pc = "run"
    /\ op = [name |-> "init", owner |-> NoNode, scope |-> {}]
    /\ written = {}
    /\ trace = <<>>
    /\ mData = <<>>
    /\ stream \in Files \cup {<<>>}
    /\ saved = Snapshot
    /\ orders = <<>>
    /\ load = [phase |-> "none", clean |-> TRUE]
    /\ tasks = NoTasks
    /\ orphans = 0
    /\ bones = NoBones
    /\ datas = [d \in DataIds |-> NoData]
    /\ dop = NoDataOp
    /\ updater = NoUpdater
    /\ focus = NewFocus
    /\ panel = NewPanel

\* Here the worker pool is left out: every computation an operation
\* scheduled is through before the next operation starts.
Next ==
    \/ \E o \in Nodes : ResetCaches(o) /\ PoolDrained
    \/ \E o \in Nodes, r \in UniqueRoots :
           \E ub \in UbChoices(o, r) : UpdateCaches(o, r, ub) /\ PoolDrained
    \/ DestroyCaches /\ PoolDrained
    \/ \E n \in Nodes, m \in Meshes : EditMesh(n, m) /\ PoolDrained
    \/ Deserialize([kind |-> "none", at |-> 0, v |-> 0]) /\ PoolDrained
    \/ Solve /\ PoolDrained

Spec == Init /\ [][Next]_vars

\* ------------------------------------------------------------------------
\* Saving and loading on their own: any bone forest and any cache list a
\* rebuild can have left is saved, and the stream is loaded back
\* ------------------------------------------------------------------------
\* the ordered forests of exactly n bones
RECURSIVE ForestsOf(_)
ForestsOf(n) ==
    IF n = 0 THEN {<<>>}
    ELSE UNION {
            {<<[f |-> f, children |-> kids]>> \o rest :
                f \in BoneFields,
                kids \in ForestsOf(k),
                rest \in ForestsOf(n - 1 - k)} :
            k \in 0..(n - 1)}

Forests == UNION {ForestsOf(n) : n \in 0..MaxBones}

\* a Cache as the core recompute leaves it for aNode under aOwner
CachesOf(aId, aNode, aOwner) ==
    {[id |-> aId, node |-> aNode, mtx |-> IdentityMtx, sign |-> g,
      verts |-> 0] : g \in FrameSigns}
        \cup {[id |-> aId, node |-> aNode,
               mtx |-> InnerMatrix(aNode, aOwner), sign |-> g,
               verts |-> v] : g \in FrameSigns, v \in VertexCounts \ {0}}

\* the lists of Caches of distinct nodes under aOwner
CacheLists(aOwner) ==
    {cs \in UNION {[1..n -> UNION {CachesOf(i, nd, aOwner) :
                            i \in 1..n, nd \in Subtree(aOwner)}] :
                    n \in 0..NumNodes} :
        /\ \A i \in 1..Len(cs) : cs[i].id = i
        /\ \A i, j \in 1..Len(cs) : i # j => cs[i].node # cs[j].node}

\* one bone with a child, for the BoneKeys whose cache list varies
SampleForest ==
    <<[f |-> 1, children |-> <<[f |-> 0, children |-> <<>>]>>]>>

InitSer ==
    /\ mesh = [n \in Nodes |-> NoMesh]
    /\ \/ /\ mData \in Forests
          /\ mCacheOwner = NoNode
          /\ mCaches = <<>>
       \/ /\ mData \in {<<>>, SampleForest}
          /\ mCacheOwner \in Nodes
          /\ mCaches \in CacheLists(mCacheOwner)
    /\ pc = "run"
    /\ op = [name |-> "init", owner |-> NoNode, scope |-> {}]
    /\ written = {}
    /\ trace = <<>>
    /\ stream = <<>>
    /\ saved = Snapshot
    /\ orders = <<>>
    /\ load = [phase |-> "none", clean |-> TRUE]
    /\ tasks = NoTasks
    /\ orphans = 0
    /\ bones = NoBones
    /\ datas = [d \in DataIds |-> NoData]
    /\ dop = NoDataOp
    /\ updater = NoUpdater
    /\ focus = NewFocus
    /\ panel = NewPanel

NextSer ==
    \/ Serialize /\ PoolDrained
    \/ \E d \in Damages(stream) : Deserialize(d) /\ PoolDrained
    \/ Solve /\ PoolDrained

SpecSer == InitSer /\ [][NextSer]_vars

\* ------------------------------------------------------------------------
\* The cache operations with the worker pool running on its own: an
\* operation returns once it has scheduled its computations, and a worker
\* runs a scheduled computation at any later time
\* ------------------------------------------------------------------------
InitPar ==
    /\ mesh = [n \in Nodes |-> NoMesh]
    /\ mCaches = <<>>
    /\ mCacheOwner = NoNode
    /\ pc = "run"
    /\ op = [name |-> "init", owner |-> NoNode, scope |-> {}]
    /\ written = {}
    /\ trace = <<>>
    /\ mData = <<>>
    /\ stream = <<>>
    /\ saved = Snapshot
    /\ orders = <<>>
    /\ load = [phase |-> "none", clean |-> TRUE]
    /\ tasks = NoTasks
    /\ orphans = 0
    /\ bones = NoBones
    /\ datas = [d \in DataIds |-> NoData]
    /\ dop = NoDataOp
    /\ updater = NoUpdater
    /\ focus = NewFocus
    /\ panel = NewPanel

NextPar ==
    \/ \E o \in Nodes : ResetCaches(o) /\ PoolSubmitted
    \/ \E o \in Nodes, r \in UniqueRoots :
           \E ub \in UbChoices(o, r) : UpdateCaches(o, r, ub) /\ PoolSubmitted
    \/ DestroyCaches /\ PoolSubmitted
    \/ \E n \in Nodes, m \in Meshes : EditMesh(n, m) /\ PoolSubmitted
    \/ \E c \in Addrs : Worker(c)
    \/ \E ub \in {"run", "crashed"} : WorkerFreed(ub)

SpecPar == InitPar /\ [][NextPar]_vars

\* ------------------------------------------------------------------------
\* Data values on their own: constructed, copied, assigned, edited and
\* destroyed in any order
\* ------------------------------------------------------------------------
InitData == InitPar

NextData ==
    \/ \E d \in DataIds : DataNew(d)
    \/ \E d, e \in DataIds : DataCopy(d, e)
    \/ \E d, e \in DataIds : DataAssign(d, e)
    \/ \E d \in DataIds : DataDestroy(d)
    \/ \E d \in DataIds, a \in BoneAddrs \cup {0}, f \in BoneFields :
           AddBone(d, a, f)
    \/ \E d \in DataIds, i \in 1..MaxBones : RemoveTopBone(d, i)
    \/ \E d \in DataIds, a \in BoneAddrs, f \in BoneFields :
           SetBone(d, a, f)
    \/ \E d \in DataIds, n \in Nodes : IsBinding(d, n)

SpecData == InitData /\ [][NextData]_vars

\* an ImageResourceUpdater on its own, made for any resource event on a
\* TimeLine with any images in its keys
InitImage ==
    /\ mesh = [n \in Nodes |-> NoMesh]
    /\ mCaches = <<>>
    /\ mCacheOwner = NoNode
    /\ pc = "run"
    /\ op = [name |-> "init", owner |-> NoNode, scope |-> {}]
    /\ written = {}
    /\ trace = <<>>
    /\ mData = <<>>
    /\ stream = <<>>
    /\ saved = Snapshot
    /\ orders = <<>>
    /\ load = [phase |-> "none", clean |-> TRUE]
    /\ tasks = NoTasks
    /\ orphans = 0
    /\ bones = NoBones
    /\ datas = [d \in DataIds |-> NoData]
    /\ dop = NoDataOp
    /\ \E r \in [ImageKeys -> Images], e \in Events :
            updater = NewUpdater(r, e)
    /\ focus = NewFocus
    /\ panel = NewPanel

NextImage ==
    \/ ImageExec
    \/ ImageUndo
    \/ ImageRedo

SpecImage == InitImage /\ [][NextImage]_vars

\* the key panels of an ObjectPanel on their own
NextKeyPanel ==
    \/ \E k \in KeyPanels, e \in BOOLEAN, n \in BOOLEAN :
            SetKeyExists(k, e, n)
    \/ \E k \in KeyPanels, e \in BOOLEAN : SetEnabled(k, e)

SpecKeyPanel == InitPar /\ [][NextKeyPanel]_vars

\* the attribute assignments of an ObjectPanel and the command stack
NextAttr ==
    \/ \E a \in Attrs : \E v \in AttrValues(a) : Assign(a, v)
    \/ AttrUndo
    \/ AttrRedo

SpecAttr == InitPar /\ [][NextAttr]_vars

\* a TimeLineFocus on its own
NextFocus ==
    \/ \E p \in Points : FocusReset(p)
    \/ \E p \in Points : FocusUpdate(p)
    \/ FocusClear
    \/ \E f \in 0..MaxFrame : FocusEditKey(f)

SpecFocus == InitPar /\ [][NextFocus]_vars

\* ------------------------------------------------------------------------
\* Properties
\* ------------------------------------------------------------------------
\* the Caches of aCaches bound to aNode
BoundTo(aCaches, aNode) ==
    {i \in 1..Len(aCaches) : aCaches[i].node = aNode}

\* aNode has an area mesh with at least one vertex
Qualifies(aNode) == mesh[aNode] # NoMesh /\ mesh[aNode].verts > 0

\* C1: after resetCaches(owner) a node has a Cache iff it lies in the
\* subtree of owner and its mesh exists with at least one vertex; no other
\* Cache (of a node outside, of a node without vertices, unbound) remains,
\* and resetCaches itself returns normally.
C1_CachePruning ==
    op.name = "reset" =>
        /\ pc = "run"
        /\ \A n \in Nodes :
            BoundTo(mCaches, n) # {}
                <=> (leftContainsRight(op.owner, n) /\ Qualifies(n))
        /\ \A i \in 1..Len(mCaches) : mCaches[i].node \in Nodes

\* a rebuild that left a Cache in the list and none for a node outside the
\* subtree of the owner, although that node's mesh has vertices
C1_Witness ==
    /\ op.name = "reset"
    /\ mCaches # <<>>
    /\ \E n \in Nodes :
        /\ ~leftContainsRight(op.owner, n)
        /\ Qualifies(n)
        /\ BoundTo(mCaches, n) = {}

\* C2: a Cache that resetCaches finds for a node that still qualifies is
\* kept as the same object: the Cache bound to the node afterwards is one of
\* the objects bound to it before; and a resetCaches that follows a
\* resetCaches of the same owner leaves the identity of every Cache as it was.
C2_CacheReuse ==
    [][op'.name = "reset" =>
        /\ \A n \in Nodes :
            (/\ BoundTo(mCaches, n) # {}
             /\ leftContainsRight(op'.owner, n)
             /\ Qualifies(n))
            => \A j \in BoundTo(mCaches', n) :
                \E i \in BoundTo(mCaches, n) : mCaches'[j].id = mCaches[i].id
        /\ (op.name = "reset" /\ op.owner = op'.owner)
            => IdSeq(mCaches') = IdSeq(mCaches)]_vars

\* a rebuild whose list holds, before a Cache it reused, a Cache it created
\* while the reused one was alive
C2_Witness ==
    /\ op.name = "reset"
    /\ Len(mCaches) = 2
    /\ mCaches[1].id > mCaches[2].id

\* C3: the cache list never holds two Caches bound to the same scene node.
C3_NoDuplicateCaches ==
    \A i, j \in 1..Len(mCaches) :
        (i # j /\ mCaches[i].node # NoNode)
            => mCaches[i].node # mCaches[j].node

\* C4: updateCaches(owner, roots) leaves every Cache whose node is not under
\* a root that lies under owner as it was (frame sign, inner matrix,
\* influence map) and requests no writeAsync for it.
C4_UpdateScoping ==
    [][op'.name = "update" =>
        \A i \in 1..Len(mCaches) :
            mCaches[i].node \notin op'.scope
                => /\ i <= Len(mCaches')
                   /\ mCaches'[i] = mCaches[i]
                   /\ mCaches[i].id \notin written']_vars

\* an update that refreshed one Cache and left alone another whose frame
\* sign is not that of its node's mesh
C4_Witness ==
    /\ op.name = "update"
    /\ pc = "run"
    /\ \E i, j \in 1..Len(mCaches) :
        /\ mCaches[i].id \in written
        /\ mCaches[j].node \in Nodes
        /\ mCaches[j].node \notin op.scope
        /\ Qualifies(mCaches[j].node)
        /\ mCaches[j].sign # mesh[mCaches[j].node].sign

\* C5: updateCaches(owner, roots) leaves the membership of the cache list
\* as it was: the same objects, bound to the same nodes, in the same order.
C5_UpdateKeepsMembership ==
    [][op'.name = "update" =>
        /\ IdSeq(mCaches') = IdSeq(mCaches)
        /\ \A i \in 1..Len(mCaches) : mCaches'[i].node = mCaches[i].node]_vars

\* an update that visited a node with vertices that has no Cache, and a
\* Cache whose node has no vertices any more
C5_Witness ==
    /\ op.name = "update"
    /\ pc = "run"
    /\ \E n \in Nodes :
        /\ n \in op.scope
        /\ Qualifies(n)
        /\ BoundTo(mCaches, n) = {}
    /\ \E i \in 1..Len(mCaches) :
        /\ mCaches[i].node \in op.scope
        /\ ~Qualifies(mCaches[i].node)

\* C6 as stated: with the owner set to a node, an operation that names
\* another owner fails an assertion and leaves the owner alone, so the owner
\* never goes from one node to another.
C6_NeverRebinds ==
    [][(/\ op'.name \in {"reset", "update"}
        /\ mCacheOwner # NoNode
        /\ op'.owner # mCacheOwner)
        => (pc' = "asserted" /\ mCacheOwner' = mCacheOwner)]_vars

\* C6 amended: with the owner set to a node, updateCaches naming another
\* owner fails the assertion and leaves the owner and the Caches alone;
\* resetCaches carries no such check and binds the owner it is given; no
\* other operation takes the owner from one node to another.
C6_SingleOwner ==
    [][/\ (/\ op'.name = "update"
           /\ mCacheOwner # NoNode
           /\ op'.owner # mCacheOwner)
          => (/\ pc' = "asserted"
              /\ mCacheOwner' = mCacheOwner
              /\ mCaches' = mCaches)
       /\ op'.name = "reset" => (pc' = "run" /\ mCacheOwner' = op'.owner)
       /\ (op'.name # "reset" /\ mCacheOwner # NoNode)
          => mCacheOwner' \in {mCacheOwner, NoNode}]_vars

\* an updateCaches that named another owner than the one set
C6_Witness ==
    /\ op.name = "update"
    /\ pc = "asserted"
    /\ mCacheOwner # NoNode
    /\ op.owner # mCacheOwner
    /\ mCaches # <<>>

\* the fields of a Cache the stream carries, without the object's identity
Carried(aCache) ==
    [node |-> aCache.node, mtx |-> aCache.mtx, sign |-> aCache.sign]

C8_FormatRejection ==
    (op.name = "deserialize" /\ stream # <<>> /\ stream[1] < 0) =>
        /\ load.phase = "failed"
        /\ mData = <<>>
        /\ mCaches = <<>>
        /\ mCacheOwner = NoNode

\* a decode of a stream with a negative top bone count into a BoneKey that
\* held bones and Caches
C8_Witness ==
    /\ op.name = "deserialize"
    /\ stream # <<>>
    /\ stream[1] < 0
    /\ saved.bones # <<>>
    /\ saved.caches # <<>>

\* C9: a deserialize that fails leaves no bone and no cache shell in the
\* BoneKey.
C9_NoPartialResult ==
    (op.name = "deserialize" /\ load.phase = "failed") =>
        (mData = <<>> /\ mCaches = <<>>)

At(aWhats) == {k \in 1..Len(trace) : trace[k].e \in aWhats}

\* what the core recompute does to a target
CoreSteps == {"sign", "matrix", "allocate", "write"}

\* what changes the cache collection
ListSteps == {"pop", "delete", "clear", "push"}

\* the Caches an updateCaches(owner, roots) that got past its owner
\* assertion handed to the core recompute: for every node in scope the
\* first Cache bound to it
Targets ==
    {i \in 1..Len(mCaches) :
        /\ mCaches[i].node \in op.scope
        /\ FindIndex(mCaches, mCaches[i].node) = i}

\* C11: when the mesh of a target's node is absent, the core recompute
\* skips that target without error or crash, processes every other target
\* of the batch as usual and still issues the wake.
C11_MissingMeshSkipped ==
    (/\ op.name = "update"
     /\ pc # "asserted"
     /\ \E i \in Targets : mesh[mCaches[i].node] = NoMesh)
    => /\ pc = "run"
       /\ \A j \in Targets :
            Qualifies(mCaches[j].node)
                => /\ mCaches[j].id \in written
                   /\ mCaches[j].sign = mesh[mCaches[j].node].sign
       /\ At({"wake"}) # {}

\* C12: a target the core recompute skips (mesh absent or without
\* vertices) keeps its inner matrix, its influence map and its frame sign,
\* so that the frame sign of a Cache stays the one of the mesh its matrix
\* and weights were computed against.
C12_SkippedKeepsValues ==
    [][(op'.name = "update" /\ pc' # "asserted") =>
        \A i \in 1..Len(mCaches) :
            (mCaches[i].node \in Nodes /\ ~Qualifies(mCaches[i].node))
                => /\ i <= Len(mCaches')
                   /\ mCaches'[i] = mCaches[i]
                   /\ mCaches[i].id \notin written']_vars

\* C13: the write lock is taken before the first target is processed, held
\* across every step of the batch and released before wakeAll: at every
\* wake there is an unlock before it and every step on a target lies
\* between the lock and that unlock.
C13_LockReleasedBeforeWake ==
    /\ \A k \in At(CoreSteps) :
        \E l \in At({"lock"}) :
            l < k /\ \A u \in At({"unlock"}) : u < l \/ k < u
    /\ \A w \in At({"wake"}) :
        \E u \in At({"unlock"}) :
            u < w /\ \A k \in At(CoreSteps) : k < u

\* C16: every insertion into, removal from, destruction and repopulation of
\* the cache collection happens while the write lock is held.
C16_ListChangedUnderLock ==
    \A k \in At(ListSteps) :
        \E l \in At({"lock"}) :
            l < k /\ \A u \in At({"unlock"}) : u < l \/ k < u

\* the core recompute was called with a list that is not empty
HadTargets ==
    \/ op.name = "reset" /\ mCaches # <<>>
    \/ op.name = "update" /\ Targets # {}

\* C18: a core recompute with targets issues wakeAll exactly once, after
\* the writeAsync request of the last target; one without targets takes no
\* lock, touches no Cache and issues no wake.
C18_WakeProtocol ==
    (op.name \in {"reset", "update"} /\ pc # "asserted") =>
        IF HadTargets
        THEN /\ Cardinality(At({"wake"})) = 1
             /\ \A k \in At(CoreSteps), w \in At({"wake"}) : k < w
        ELSE At(CoreSteps \cup {"lock", "wake", "unlock"}) = {}

\* C19: resetCaches(owner) ends with the owner set to owner, and every
\* entry of the new collection has the frame sign of its node's mesh, the
\* inner matrix of its node under owner, and exactly one frame sign, one
\* matrix and one writeAsync step in the recompute.
C19_FullRecompute ==
    op.name = "reset" =>
        /\ mCacheOwner = op.owner
        /\ \A i \in 1..Len(mCaches) :
            /\ mCaches[i].sign = mesh[mCaches[i].node].sign
            /\ mCaches[i].mtx = InnerMatrix(mCaches[i].node, op.owner)
            /\ mCaches[i].verts = mesh[mCaches[i].node].verts
            /\ \A w \in {"sign", "matrix", "write"} :
                Cardinality({k \in At({w}) : trace[k].c = mCaches[i].id}) = 1

\* a rebuild that popped one Cache for reuse and created another
C19_Witness ==
    /\ op.name = "reset"
    /\ Len(mCaches) = 2
    /\ At({"pop"}) # {}
    /\ At({"new"}) # {}

\* C20 as stated: destroyCaches releases every Cache and clears the owner,
\* and in a rebuild and in a decode it runs before any node is visited,
\* before any Cache is popped or created and before any data is read.
C20_DestroyFirst ==
    /\ op.name = "destroy" => (mCaches = <<>> /\ mCacheOwner = NoNode)
    /\ \A k \in At({"clear"}) :
        \A j \in At({"visit", "pop", "new", "read", "push"}) : k < j

\* C20 amended: destroyCaches releases every Cache still in the collection
\* and clears the owner; in a decode it runs before any data is read; in
\* resetCaches it runs once, after the traversal has popped the Caches to
\* reuse and created the new ones, and before the new collection is
\* installed and the owner set; a popped Cache is not released.
C20_DestroyAfterTraversal ==
    /\ op.name = "destroy" => (mCaches = <<>> /\ mCacheOwner = NoNode)
    /\ op.name = "deserialize" =>
        \A k \in At({"clear"}), j \in At({"read", "push"}) : k < j
    /\ op.name = "reset" =>
        /\ Cardinality(At({"clear"})) = 1
        /\ \A k \in At({"clear"}) :
            /\ \A j \in At({"visit", "pop", "new"}) : j < k
            /\ \A j \in At({"delete"}) : j < k
            /\ \A j \in At({"push", "owner", "lock"}) : k < j
        /\ \A j \in At({"pop"}) :
            /\ trace[j].c \in Ids(mCaches)
            /\ \A d \in At({"delete"}) : trace[d].c # trace[j].c

\* a rebuild that popped one Cache for reuse and then released another
C20_Witness ==
    /\ op.name = "reset"
    /\ \E j \in At({"pop"}), d \in At({"delete"}) : j < d


\* the writeAsync steps of the operation for the Cache at aCache
WritesOf(aCache) == {k \in At({"write"}) : trace[k].c = aCache}

\* C14: two weight computations are never in flight at the same time for
\* the influence map of one Cache: an operation requests at most one
\* writeAsync per Cache, and none for a Cache whose earlier request has not
\* been run to its end.
C14_OneComputationPerCache ==
    \A c \in Addrs :
        /\ tasks[c] <= 1
        /\ Cardinality(WritesOf(c)) <= 1

C15_CloneIndependence ==
    /\ \A d, e \in DataIds :
        d # e => BonesOf(d) \cap BonesOf(e) = {}
    /\ \A d \in DataIds : \A a \in BonesOf(d) : bones[a] # NoBone
    /\ ~dop.twice
    /\ \A a \in BoneAddrs :
        bones[a] # NoBone => \E d \in DataIds : a \in BonesOf(d)
    /\ (dop.name \in {"copy", "assign"} /\ dop.d # dop.s) =>
        /\ Shapes[dop.d] = dop.before[dop.s]
        /\ Shapes[dop.s] = dop.before[dop.s]
    /\ dop.name # "none" =>
        \A e \in DataIds : (e # dop.d) => Shapes[e] = dop.before[e]

\* a Data with a bone and its child was destroyed while its copy lives
C15_Witness ==
    /\ dop.name = "destroy"
    /\ \E e \in DataIds :
        /\ datas[e].alive
        /\ Shapes[e] = dop.before[dop.d]
        /\ \E i \in 1..Len(Shapes[e]) : Shapes[e][i].children # <<>>

\* the IDs the decode recorded for aWhich (a position of the cache list, 0
\* for the owner)
OrderedFor(aWhich) ==
    {orders[k].id : k \in {j \in 1..Len(orders) : orders[j].cache = aWhich}}

\* C21: when phase one of a decode is through, the bones and the cache
\* shells are there with their matrices and frame signs, the owner and the
\* node of every Cache are absent and findCache finds nothing; phase two
\* sets a reference only to the node of the ID recorded for it and leaves
\* matrices and frame signs alone.
C21_TwoPhaseDecode ==
    [][/\ (op'.name = "deserialize" /\ load'.phase = "read") =>
            /\ mCacheOwner' = NoNode
            /\ \A i \in 1..Len(mCaches') : mCaches'[i].node = NoNode
            /\ \A n \in Nodes : findCache(mCaches', n) = 0
            /\ load'.clean =>
                /\ mData' = saved.bones
                /\ Len(mCaches') = Len(saved.caches)
                /\ \A i \in 1..Len(mCaches') :
                    /\ mCaches'[i].mtx = saved.caches[i].mtx
                    /\ mCaches'[i].sign = saved.caches[i].sign
       /\ op'.name = "solve" =>
            /\ mCacheOwner' \in {NoNode} \cup OrderedFor(0)
            /\ mData' = mData
            /\ Len(mCaches') = Len(mCaches)
            /\ \A i \in 1..Len(mCaches) :
                /\ mCaches'[i].node \in {NoNode} \cup OrderedFor(i)
                /\ mCaches'[i].mtx = mCaches[i].mtx
                /\ mCaches'[i].sign = mCaches[i].sign]_vars

\* a decode that went through both phases and bound two Caches to two
\* nodes and the owner to one of them
C21_Witness ==
    /\ op.name = "solve"
    /\ load.phase = "ok"
    /\ Len(mCaches) = 2
    /\ mCaches[1].node \in Nodes
    /\ mCaches[2].node \in Nodes
    /\ mCaches[1].node # mCaches[2].node
    /\ mCacheOwner \in Nodes

\* C22: after dst = src, for any two Datas (the same one included), dst
\* holds a forest equal to the one src held right before the assignment.
C22_AssignClones ==
    dop.name = "assign" => Shapes[dop.d] = dop.before[dop.s]

\* aSeq back to front
Reverse(aSeq) == [i \in 1..Len(aSeq) |-> aSeq[Len(aSeq) + 1 - i]]

\* the heap with the children of every bone back to front
Mirror(aHeap) ==
    [a \in BoneAddrs |-> [aHeap[a] EXCEPT !.children = Reverse(@)]]

\* C23: isBinding(node) is true exactly when some bone of the forest, a top
\* bone or a descendant, binds node; the top bones or the children taken
\* back to front give the same answer, and an empty forest gives false.
C23_IsBinding ==
    dop.name = "isBinding" =>
        /\ dop.ret <=> \E a \in BonesOf(dop.d) : Binds(bones[a], dop.node)
        /\ dop.ret = isBinding(bones, Reverse(datas[dop.d].top), dop.node)
        /\ dop.ret = isBinding(Mirror(bones), datas[dop.d].top, dop.node)
        /\ datas[dop.d].top = <<>> => ~dop.ret

\* isBinding answered true for a node that only a child bone binds
C23_Witness ==
    /\ dop.name = "isBinding"
    /\ dop.ret
    /\ \A i \in 1..Len(datas[dop.d].top) :
        ~Binds(bones[datas[dop.d].top[i]], dop.node)

\* C24: a resetCaches or an updateCaches(owner, roots) never fails an
\* assertion of the core recompute: the only assertion that can fail is the
\* owner test of updateCaches(owner, roots) itself, before the core is
\* called; when the core takes the lock the owner is set; every Cache the
\* core works on or popCache hands out has a node, and a Cache without a
\* node is found for no node.
C24_CoreAssertionsHold ==
    op.name \in {"reset", "update"} =>
        /\ At({"assert"}) # {} =>
            /\ op.name = "update"
            /\ trace = <<Ev("assert", 0)>>
            /\ mCacheOwner \notin {NoNode, op.owner}
        /\ At({"lock"}) # {} => mCacheOwner = op.owner /\ op.owner # NoNode
        /\ \A k \in At(CoreSteps \cup {"pop"}) :
            \E i \in 1..Len(mCaches) :
                /\ mCaches[i].id = trace[k].c
                /\ mCaches[i].node # NoNode
        /\ \A n \in Nodes :
            LET i == FindIndex(mCaches, n) IN
            i # 0 => mCaches[i].node = n

\* an updateCaches(owner, roots) computed a target to its end while the
\* list held a Cache without a node
C24_Witness ==
    /\ op.name = "update"
    /\ pc = "run"
    /\ written # {}
    /\ At({"wake"}) # {}
    /\ \E i \in 1..Len(mCaches) : mCaches[i].node = NoNode

\* the found-focus result of the call that produced this state
FoundByCall ==
    IF focus.call = "reset" THEN isValid(focus.ret) ELSE focus.ret

\* C26: after a reset or an update, viewIsChanged() is true exactly when
\* the found-focus result of the call differs from the found-focus state the
\* call before left (false at first), and the found-focus state is that
\* result; focus is found exactly when a key lies within the range; update
\* returns the result and reset a valid SingleFocus exactly when focus was
\* found; clear leaves found-focus false and viewIsChanged true.
C26_ChangeTracking ==
    /\ focus.call = "new" => ~focus.mFoundFocus /\ ~focus.mViewIsChanged
    /\ focus.call \in {"reset", "update"} =>
        /\ focus.mViewIsChanged = (FoundByCall # focus.prev)
        /\ focus.mFoundFocus = FoundByCall
        /\ FoundByCall = (KeysInRange(focus.keys, focus.mRange) # {})
    /\ focus.call = "clear" => ~focus.mFoundFocus /\ focus.mViewIsChanged

\* a reset found a key where the call before had found one too: nothing to
\* redraw
C26_Witness ==
    /\ focus.call = "reset"
    /\ isValid(focus.ret)
    /\ focus.prev
    /\ ~focus.mViewIsChanged

\* the image keys whose resource the event finds when exec runs
Matched ==
    {k \in ImageKeys : findTarget(updater.event, updater.before[k]) # 0}

\* C25: exec records exactly the image keys whose resource the event finds,
\* each with the image it held and the image of the node found, and gives
\* them the new image; after an undo every key holds the image it held
\* before exec, after a redo the image it held after exec, whatever the
\* number of undos and redos; a key the event does not match keeps its
\* image throughout.
C25_ReversibleUpdate ==
    updater.phase \in {"done", "undone"} =>
        /\ Len(updater.mTargets) = Cardinality(Matched)
        /\ {updater.mTargets[i].key : i \in 1..Len(updater.mTargets)}
                = Matched
        /\ \A i \in 1..Len(updater.mTargets) :
            LET t == updater.mTargets[i] IN
            /\ t.prevImage = updater.before[t.key]
            /\ t.nextImage = findTarget(updater.event, updater.before[t.key])
        /\ \A k \in ImageKeys \ Matched :
            updater.resource[k] = updater.before[k]
        /\ updater.phase = "undone" => updater.resource = updater.before
        /\ updater.phase = "done" =>
            \A k \in Matched :
                updater.resource[k]
                    = findTarget(updater.event, updater.before[k])

\* exec, undo and redo went by; one key got another image, one was not
\* matched
C25_Witness ==
    /\ updater.phase = "done"
    /\ updater.toggles >= 2
    /\ \E k \in Matched : updater.resource[k] # updater.before[k]
    /\ ImageKeys \ Matched # {}

\* C27: on each key panel the knocker and the group are never both shown;
\* the group is shown exactly when the key exists, the knocker exactly when
\* it does not exist (and, on the Pose and FFD panels, is knockable), and
\* keyExists() is the value the last setKeyExists was given.
C27_KeyPanelVisibility ==
    \A k \in KeyPanels :
        LET p    == panel.key[k]
            last == panel.last[k]
        IN
        /\ ~(p.knocker /\ p.group)
        /\ keyExists(p) = last.exists
        /\ p.group = last.exists
        /\ p.knocker = (~last.exists /\ last.knockable)

\* the Pose panel shows its group and the FFD panel, whose key is missing
\* and not knockable, shows neither group nor knocker
C27_Witness ==
    /\ panel.call = "setKeyExists"
    /\ panel.key["Pose"].group
    /\ keyExists(panel.key["Pose"])
    /\ panel.last["Pose"].knockable
    /\ ~panel.last["FFD"].knockable
    /\ ~panel.key["FFD"].group
    /\ ~panel.key["FFD"].knocker
    /\ panel.key["SRT"].knocker

\* C28: an assignment pushes one command; its execution gives the attribute
\* the new value, its undo gives back the value the attribute had when the
\* assignment was made, so that the attributes are then what they were
\* before it, and its redo gives the new value again; the project hears of
\* the change with the undo flag false on execute and redo, true on undo.
C28_ReversibleAssign ==
    /\ panel.call = "assign" =>
        /\ Len(panel.stack) = panel.done
        /\ panel.note = FALSE
    /\ panel.call = "redo" => panel.note = FALSE
    /\ panel.call = "undo" => panel.note = TRUE
    /\ panel.done > 0 =>
        LET top == panel.stack[panel.done] IN
        /\ panel.attr[top.cmd.attr] = top.cmd.exec
        /\ \A a \in Attrs \ {top.cmd.attr} : panel.attr[a] = top.was[a]
    /\ panel.done < Len(panel.stack) =>
        panel.attr = panel.stack[panel.done + 1].was

\* a depth that was changed and, on top of it, changed again, with the last
\* change undone
C28_Witness ==
    /\ panel.call = "undo"
    /\ panel.done = 1
    /\ Len(panel.stack) = 2
    /\ panel.stack[1].cmd.attr = "depth"
    /\ panel.stack[2].cmd.attr = "depth"
    /\ panel.stack[2].cmd.exec # panel.attr["depth"]
    /\ panel.stack[1].cmd.undo # panel.attr["depth"]


====
